---- MODULE Spec2Model ----
(***************************************************************************)
(* Circle Bot (src/bot.py): the image scorer analyse_image, the scores     *)
(* table of circle_scores.db, the on_message submission handler, the       *)
(* /leaderboard, /set and /timezone commands and the scheduler that        *)
(* on_ready starts.                                                        *)
(*                                                                         *)
(* The bot runs on one asyncio event loop: the code between two awaits of  *)
(* a coroutine runs without interleaving, so every action below is the     *)
(* code of one handler from one await to the next.  sqlite3 calls and      *)
(* analyse_image (which contains no await) never suspend.                  *)
(*                                                                         *)
(* Spec    the submission handlers, /set and the clock, from an empty      *)
(*         ledger;                                                         *)
(* LbSpec  the /leaderboard command, from every ledger submissions can     *)
(*         have left;                                                      *)
(* AllSpec all of them interleaved;                                        *)
(* ScorerSpec the scorer and the insert over every image of the bounds;    *)
(* LiveSpec Spec with every awaited call returning;                        *)
(* LifeSpec connects, disconnects, /timezone and /set.                     *)
(***************************************************************************)
EXTENDS Integers, Sequences, FiniteSets, TLC

\* ------------------------------------------------------------------ bounds
NumHandlers == 2      \* on_message events delivered during a run, in order
NumUsers == 2         \* distinct message authors
MaxDay == 1           \* the UTC date advances from day 0 up to this day
MaxRows == 2          \* rows in the ledger a /leaderboard command starts from
MaxContours == 2      \* contours findContours returns for an image
MaxArea == 3          \* largest area of a contour or of its enclosing circle
MaxSchedulers == 3    \* on_ready events (connects and reconnects) during a run

Handlers == 1..NumHandlers
Users == 1..NumUsers

\* ------------------------------------------------------------- inputs
\* Channel ids: 0 is the unconfigured default of PROMPT_CHANNEL_ID.
ChallengeChannel == 1
Channels == {ChallengeChannel}
\* message.attachments: no attachment, or one of a content type (type, subtype).
ContentTypes == {<<"image", "png">>, <<"text", "plain">>}
Attachments == {<<>>} \cup {<<ct>> : ct \in ContentTypes}

\* A downloaded image, by what cv2 makes of it: decode is "raise" when
\* cv2.imdecode raises (zero-byte buffer), "none" when it returns None
\* (corrupt data), "ok" otherwise; contours is the result of findContours on
\* the binarized image, each contour with its contourArea and the area
\* pi * radius**2 of its minEnclosingCircle.
Contour(a, c) == [area |-> a, circle_area |-> c]
EmptyBuffer == [decode |-> "raise", contours |-> <<>>]
CorruptImage == [decode |-> "none", contours |-> <<>>]
BlankImage == [decode |-> "ok", contours |-> <<>>]
DotImage == [decode |-> "ok", contours |-> <<Contour(0, 0)>>]
EllipseImage == [decode |-> "ok", contours |-> <<Contour(2, 5)>>]
DiskImage == [decode |-> "ok", contours |-> <<Contour(0, 0), Contour(4, 4)>>]
Images == {EmptyBuffer, CorruptImage, BlankImage, DotImage, EllipseImage, DiskImage}
NoImage == [decode |-> "unset", contours |-> <<>>]

\* The `timezone` argument of /timezone: names zoneinfo.ZoneInfo accepts, one
\* it raises on, and the argument left out.
TzDatabase == {"Europe/London", "America/New_York"}
NoTimezone == "None"
TimezoneArgs == TzDatabase \cup {"Mars/Olympus", NoTimezone}

\* What cv2 can return for a contour: contourArea is the area of the polygon
\* through the contour's points and minEnclosingCircle a circle around all of
\* them, so 0 <= area <= circle_area (a single point has both 0, a straight
\* line area 0).
ContourShapes == {Contour(a, c) : <<a, c>> \in {x \in (0..MaxArea) \X (0..MaxArea) : x[1] <= x[2]}}

\* Every image of up to MaxContours contours, decodable or not.
ScorerImages ==
    {EmptyBuffer, CorruptImage}
    \cup {[decode |-> "ok", contours |-> cs] :
            cs \in UNION {[1..n -> ContourShapes] : n \in 0..MaxContours}}

\* ------------------------------------------------------------------ state
VARIABLES
    scores,             \* rows of the scores table, in rowid (insertion) order
    utc_date,           \* the calendar date datetime.now(UTC) falls on
    PROMPT_CHANNEL_ID,  \* module global
    handlers,           \* the on_message coroutines, by event
    lb,                 \* the /leaderboard coroutine
    config,             \* bot_config.json
    scheduler,          \* module global: 0 for None, else the place in aps
    aps                 \* the AsyncIOScheduler objects on_ready has made

vars == <<scores, utc_date, PROMPT_CHANNEL_ID, handlers, lb, config, scheduler, aps>>

\* ------------------------------------------------------------ analyse_image
None == [kind |-> "None", value |-> 0]
Float(x) == [kind |-> "float", value |-> x]
Unset == [kind |-> "unset", value |-> 0]

\* Of the contours of maximal area, the last one taken.
RECURSIVE MaxByArea_LastOfTies(_)
MaxByArea_LastOfTies(contours) ==
    IF Len(contours) = 1 THEN contours[1]
    ELSE LET rest == MaxByArea_LastOfTies(Tail(contours))
         IN IF rest.area >= contours[1].area THEN rest ELSE contours[1]

\* max(contours, key=cv2.contourArea): the first contour of maximal area.
RECURSIVE MaxByArea(_)
MaxByArea(contours) ==
    IF Len(contours) = 1 THEN contours[1]
    ELSE LET rest == MaxByArea(Tail(contours))
         IN IF rest.area > contours[1].area THEN rest ELSE contours[1]

\* A shape without area taken for a failed analysis.
Circularity_NoneOnZeroArea(area, circle_area) ==
    IF area = 0 THEN None
    ELSE IF circle_area = 0 THEN None
    ELSE Float((area * 100) \div circle_area)

\* The ratio taken the other way round.
Circularity_InverseRatio(area, circle_area) ==
    IF area = 0 THEN Float(0)
    ELSE IF circle_area = 0 THEN Float(0)
    ELSE Float((circle_area * 100) \div area)

\* Lines 190-207: the percentage of the enclosing circle the contour fills,
\* in whole percents; 0.0 for a contour or a circle without area.
Circularity(area, circle_area) ==
    IF area = 0 THEN Float(0)
    ELSE IF circle_area = 0 THEN Float(0)
    ELSE Float((area * 100) \div circle_area)

\* `image is None` answered like the other failed analyses, with 0.0.
analyse_image_ZeroOnDecodeFailure(image_bytes) ==
    IF image_bytes.decode = "raise" THEN None
    ELSE IF image_bytes.decode = "none" THEN Float(0)
    ELSE IF image_bytes.contours = <<>> THEN Float(0)
    ELSE LET largest_contour == MaxByArea(image_bytes.contours)
         IN Circularity(largest_contour.area, largest_contour.circle_area)

analyse_image(image_bytes) ==
    IF image_bytes.decode = "raise" THEN None
    ELSE IF image_bytes.decode = "none" THEN None
    ELSE IF image_bytes.contours = <<>> THEN Float(0)
    ELSE LET largest_contour == MaxByArea(image_bytes.contours)
         IN Circularity(largest_contour.area, largest_contour.circle_area)

\* ------------------------------------------------------------ scores table
Row(u, d, s) == [user_id |-> u, score |-> s, date |-> d]

\* The check left out: no row is ever found.
HasRow_Never(table, u, d) == FALSE

\* SELECT 1 FROM scores WHERE user_id = ? AND date = ?  ... fetchone()
HasRow(table, u, d) ==
    \E i \in 1..Len(table) : table[i].user_id = u /\ table[i].date = d

\* The table declared with PRIMARY KEY (date): one row per day.
PrimaryKeyFree_DateOnly(table, u, d) ==
    \A i \in 1..Len(table) : table[i].date # d

\* The table declared without its PRIMARY KEY clause.
PrimaryKeyFree_NoConstraint(table, u, d) == TRUE

\* PRIMARY KEY (user_id, date): may the row be inserted?
PrimaryKeyFree(table, u, d) ==
    \A i \in 1..Len(table) : ~(table[i].user_id = u /\ table[i].date = d)

\* The date taken from the clock again when the row is written.
InsertRow_DateNow(table, u, d, s) == Append(table, Row(u, utc_date, s))

\* One row per user: the user's earlier rows are replaced.
InsertRow_ReplaceUser(table, u, d, s) ==
    Append(SelectSeq(table, LAMBDA r : r.user_id # u), Row(u, d, s))

\* INSERT INTO scores (user_id, date, score) VALUES (?, ?, ?) and commit
InsertRow(table, u, d, s) == Append(table, Row(u, d, s))

\* The query without its WHERE clause.
RECURSIVE SelectWhereDate_AllDates(_, _)
SelectWhereDate_AllDates(table, d) ==
    IF table = <<>> THEN <<>>
    ELSE <<[user_id |-> Head(table).user_id, score |-> Head(table).score]>>
         \o SelectWhereDate_AllDates(Tail(table), d)

\* SELECT user_id, score FROM scores WHERE date = ? : the matching rows in
\* rowid order, projected on (user_id, score).
RECURSIVE SelectWhereDate(_, _)
SelectWhereDate(table, d) ==
    IF table = <<>> THEN <<>>
    ELSE IF Head(table).date = d
         THEN <<[user_id |-> Head(table).user_id, score |-> Head(table).score]>>
              \o SelectWhereDate(Tail(table), d)
         ELSE SelectWhereDate(Tail(table), d)

\* ORDER BY score ASC.
ScoreDesc_Asc(a, b) == a.score <= b.score

\* The comparison ORDER BY score DESC sorts by: a before b.
ScoreDesc(a, b) == a.score >= b.score

\* ORDER BY score DESC: insertion of each row into the sorted output.  Rows
\* of equal score may come out in either order (SQL leaves it open), so the
\* result is a set of orderings.
RECURSIVE InsertSorted(_, _)
InsertSorted(sorted, r) ==
    IF sorted = <<>> THEN {<<r>>}
    ELSE (IF ScoreDesc(r, Head(sorted)) THEN {<<r>> \o sorted} ELSE {})
         \cup (IF ScoreDesc(Head(sorted), r)
               THEN {<<Head(sorted)>> \o t : t \in InsertSorted(Tail(sorted), r)}
               ELSE {})

RECURSIVE OrderByScoreDesc(_)
OrderByScoreDesc(rows) ==
    IF rows = <<>> THEN {<<>>}
    ELSE UNION {InsertSorted(s, Head(rows)) : s \in OrderByScoreDesc(Tail(rows))}

\* ------------------------------------------------------------------- Init
IdleHandler ==
    [pc |-> "idle", user_id |-> 0, today |-> 0, image_bytes |-> NoImage,
     score |-> Unset, insert |-> "none", conn |-> 0, reply |-> "none",
     outcome |-> "none"]

\* load_config, lines 50-54: the configuration written when there is none.
default_config == [prompt_channel_id |-> 0, challenge_timezone |-> "Europe/London"]

IdleLeaderboard ==
    [pc |-> "idle", results |-> <<>>, response |-> "none", raised |-> "none"]

Init ==
    /\ scores = <<>>
    /\ utc_date = 0
    /\ PROMPT_CHANNEL_ID = 0
    /\ handlers = [h \in Handlers |-> IdleHandler]
    /\ lb = IdleLeaderboard
    /\ config = default_config
    /\ scheduler = 0
    /\ aps = <<>>

\* ------------------------------------------------------------- on_message
\* The could-not-download reply sent outside the try statement of line 430.
NextReplyOnError_DownloadReplyUnguarded(reply) ==
    CASE reply = "already_submitted" -> "check_error"
      [] reply = "check_error" -> "raise"
      [] reply = "saved" -> "save_error"
      [] reply = "save_error" -> "trouble"
      [] reply = "unanalysable" -> "trouble"
      [] reply = "download_failed" -> "raise"
      [] reply = "trouble" -> "raise"

\* Where an exception raised by `await message.reply(...)` is caught, by the
\* try statement the reply stands in: the reply the handler sends next, or
\* "raise" when the exception leaves on_message.
NextReplyOnError(reply) ==
    CASE reply = "already_submitted" -> "check_error"     \* line 420, except at 425
      [] reply = "check_error" -> "raise"                 \* line 426
      [] reply = "saved" -> "save_error"                  \* line 454, except at 456
      [] reply = "save_error" -> "trouble"                \* line 457, except at 465
      [] reply = "unanalysable" -> "trouble"              \* line 460
      [] reply = "download_failed" -> "trouble"           \* line 463
      [] reply = "trouble" -> "raise"                     \* line 466

\* The h-th message event is the next one the gateway delivers.
Arrives(h) ==
    /\ handlers[h].pc = "idle"
    /\ \A g \in Handlers : g < h => handlers[g].pc # "idle"

\* Lines 398-407: the message is not a submission and on_message returns.
Filtered(author_is_bot, channel, attachments) ==
    \/ author_is_bot
    \/ channel # PROMPT_CHANNEL_ID
    \/ IF attachments = <<>> THEN TRUE
       ELSE attachments[1][1] # "image"  \* content_type.startswith('image/')

\* on_message, lines 397-407, for a message that is not a submission.
OnMessageIgnored(h) ==
    /\ Arrives(h)
    /\ \E author_is_bot \in BOOLEAN, channel \in Channels, attachments \in Attachments :
          Filtered(author_is_bot, channel, attachments)
    /\ handlers' = [handlers EXCEPT ![h].pc = "ignored"]
    /\ UNCHANGED <<scores, utc_date, PROMPT_CHANNEL_ID, lb, config, scheduler, aps>>

\* The check claiming the day for the submitter when it finds no row.
TableAfterCheck_ClaimsDay(table, u, d) ==
    IF PrimaryKeyFree(table, u, d) THEN Append(table, Row(u, d, 0)) ELSE table

\* Lines 416-424: the connection of the check runs one SELECT and is closed
\* (or dropped) without a commit: the table it leaves behind.
TableAfterCheck(table, u, d) == table

\* The connection of the check kept open over the download and the scoring.
ConnAfterCheck_NeverClosed(found) == 1

\* The connections the handler holds open when the check reaches its await:
\* with a row found, the reply of line 420 is awaited before the close of
\* line 421; without one, line 424 has closed it before session.get.
ConnAfterCheck(found) == IF found THEN 1 ELSE 0

\* on_message, lines 397-432: the filters, today, the already-submitted
\* check, up to the first await (the reply of line 420 or 426, or session.get).
OnMessage(h) ==
    /\ Arrives(h)
    /\ \E channel \in Channels, attachments \in Attachments :
          ~Filtered(FALSE, channel, attachments)
    /\ \E user_id \in Users, db_error \in BOOLEAN :
          LET today == utc_date
              started == [handlers[h] EXCEPT !.user_id = user_id, !.today = today]
          IN /\ handlers' = [handlers EXCEPT ![h] =
                IF db_error
                THEN [started EXCEPT !.pc = "reply", !.reply = "check_error"]
                ELSE IF HasRow(scores, user_id, today)
                THEN [started EXCEPT !.pc = "reply", !.reply = "already_submitted",
                                     !.conn = ConnAfterCheck(TRUE)]
                ELSE [started EXCEPT !.pc = "get", !.conn = ConnAfterCheck(FALSE)]]
             /\ scores' = IF db_error THEN scores
                          ELSE TableAfterCheck(scores, user_id, today)
    /\ UNCHANGED <<utc_date, PROMPT_CHANNEL_ID, lb, config, scheduler, aps>>

\* session.get(attachment.url) returns, lines 432-434 and 462-466.
SessionGet(h) ==
    /\ handlers[h].pc = "get"
    /\ \E result \in {"200", "404", "raise"} :
          handlers' = [handlers EXCEPT ![h] =
                CASE result = "200" -> [@ EXCEPT !.pc = "read"]
                  [] result = "404" -> [@ EXCEPT !.pc = "reply", !.reply = "download_failed"]
                  [] result = "raise" -> [@ EXCEPT !.pc = "reply", !.reply = "trouble"]]
    /\ UNCHANGED <<scores, utc_date, PROMPT_CHANNEL_ID, lb, config, scheduler, aps>>

\* resp.read() raises: the except of line 465.
ReadRaises(h) ==
    /\ handlers[h].pc = "read"
    /\ handlers' = [handlers EXCEPT ![h].pc = "reply", ![h].reply = "trouble"]
    /\ UNCHANGED <<scores, utc_date, PROMPT_CHANNEL_ID, lb, config, scheduler, aps>>

\* The insert taken to succeed whenever sqlite3 reports no I/O error.
InsertOutcome_NoIntegrityError(table, u, d, db_error) ==
    IF db_error THEN "OperationalError" ELSE "ok"

\* The outcome of lines 439-443 for one submission: the row is committed, or
\* sqlite3 raises IntegrityError (primary key) or another error.
InsertOutcome(table, u, d, db_error) ==
    IF db_error THEN "OperationalError"
    ELSE IF PrimaryKeyFree(table, u, d) THEN "ok"
    ELSE "IntegrityError"

\* Every failure after the download answered with the one message.
ReplyAfterScoring_OneFailureMessage(score, insert) ==
    IF score # None /\ insert = "ok" THEN "saved" ELSE "unanalysable"

\* Lines 436-460: the reply the handler awaits first once scoring and the
\* insert are over: line 454, line 457 (except of line 456) or line 460.
ReplyAfterScoring(score, insert) ==
    IF score = None THEN "unanalysable"
    ELSE IF insert = "ok" THEN "saved"
    ELSE "save_error"

\* resp.read() returns image_bytes, lines 434-460: analyse_image, then the
\* insert, up to the await of the reply; image_bytes is one of images.
ReadAndScoreFrom(h, images) ==
    /\ handlers[h].pc = "read"
    /\ \E image_bytes \in images, db_error \in BOOLEAN :
          LET me == handlers[h]
              score == analyse_image(image_bytes)
              insert == InsertOutcome(scores, me.user_id, me.today, db_error)
              scored == [me EXCEPT !.image_bytes = image_bytes, !.score = score,
                                   !.pc = "reply"]
          IN IF score # None
             THEN /\ scores' = IF insert = "ok"
                               THEN InsertRow(scores, me.user_id, me.today, score.value)
                               ELSE scores
                  /\ handlers' = [handlers EXCEPT ![h] =
                        [scored EXCEPT !.insert = insert,
                                       !.conn = IF insert = "ok" THEN 0 ELSE 1,
                                       !.reply = ReplyAfterScoring(score, insert)]]
             ELSE /\ scores' = scores
                  /\ handlers' = [handlers EXCEPT ![h] =
                        [scored EXCEPT !.reply = ReplyAfterScoring(score, "none")]]
    /\ UNCHANGED <<utc_date, PROMPT_CHANNEL_ID, lb, config, scheduler, aps>>

ReadAndScore(h) == ReadAndScoreFrom(h, Images)

\* on_message has returned (or raised): its locals are gone.  What is kept of
\* the event is whose it was, its day, what its insert did and the message
\* the submitter got.
Returned(me, outcome) ==
    [IdleHandler EXCEPT !.pc = "done", !.user_id = me.user_id, !.today = me.today,
                        !.insert = me.insert, !.outcome = outcome]

\* An awaited message.reply(...) returns: the submitter has the message.
\* After the reply of line 420 the connection is closed (line 421).
ReplyDelivered(h) ==
    /\ handlers[h].pc = "reply"
    /\ handlers' = [handlers EXCEPT ![h] = Returned(handlers[h], handlers[h].reply)]
    /\ UNCHANGED <<scores, utc_date, PROMPT_CHANNEL_ID, lb, config, scheduler, aps>>

\* An awaited message.reply(...) raises (discord.HTTPException).
ReplyRaises(h) ==
    /\ handlers[h].pc = "reply"
    /\ LET me == handlers[h]
           next == NextReplyOnError(me.reply)
       IN handlers' = [handlers EXCEPT ![h] =
             IF next = "raise" THEN Returned(me, "raised")
             ELSE [me EXCEPT !.reply = next]]
    /\ UNCHANGED <<scores, utc_date, PROMPT_CHANNEL_ID, lb, config, scheduler, aps>>

\* ------------------------------------------------------------ /leaderboard
\* leaderboard, lines 327-337 and 350-351: today, the query, up to the first
\* await (the "no entries" message, the error message, or bot.fetch_user).
Leaderboard ==
    /\ lb.pc = "idle"
    /\ \E db_error \in BOOLEAN :
          LET today == utc_date
          IN IF db_error
             THEN lb' = [lb EXCEPT !.pc = "send", !.response = "error",
                                   !.raised = "sqlite3"]
             ELSE \E results \in OrderByScoreDesc(SelectWhereDate(scores, today)) :
                    lb' = IF results = <<>>
                          THEN [lb EXCEPT !.pc = "send", !.response = "no_entries"]
                          ELSE [lb EXCEPT !.pc = "fetch_user", !.results = results]
    /\ UNCHANGED <<scores, utc_date, PROMPT_CHANNEL_ID, handlers, config, scheduler, aps>>

\* Lines 339-349: the embed is built, one field per row; a failing
\* bot.fetch_user only changes the name shown (the except of line 345).
LeaderboardEmbed ==
    /\ lb.pc = "fetch_user"
    /\ lb' = [lb EXCEPT !.pc = "send", !.response = "embed"]
    /\ UNCHANGED <<scores, utc_date, PROMPT_CHANNEL_ID, handlers, config, scheduler, aps>>

\* interaction.response.send_message(...) returns and the command is over.
LeaderboardSent ==
    /\ lb.pc = "send"
    /\ lb' = IdleLeaderboard
    /\ UNCHANGED <<scores, utc_date, PROMPT_CHANNEL_ID, handlers, config, scheduler, aps>>

\* interaction.response.send_message(...) raises: inside the try it is caught
\* at line 350 and the error message is sent; from line 351 it leaves the
\* command.
LeaderboardSendRaises ==
    /\ lb.pc = "send"
    /\ lb' = IF lb.response = "error"
             THEN IdleLeaderboard
             ELSE [lb EXCEPT !.response = "error", !.raised = "send_message"]
    /\ UNCHANGED <<scores, utc_date, PROMPT_CHANNEL_ID, handlers, config, scheduler, aps>>

\* -------------------------------------------------------------------- /set
\* set_channel, lines 291-321, called by an administrator.
SetChannel ==
    /\ \E channel \in Channels :
          /\ PROMPT_CHANNEL_ID' = channel
          /\ config' = [config EXCEPT !.prompt_channel_id = channel]
    /\ UNCHANGED <<scores, utc_date, handlers, lb, scheduler, aps>>

\* -------------------------------------------------- scheduler and /timezone
\* on_ready, lines 475-520: the table is created if missing, the channel is
\* read from the configuration, and a new AsyncIOScheduler with one cron job
\* (midnight in the configured timezone) is started and stored in the global;
\* the scheduler the global held before is left as it is.
OnReady ==
    /\ Len(aps) < MaxSchedulers
    /\ PROMPT_CHANNEL_ID' = config.prompt_channel_id
    /\ aps' = Append(aps, [timezone |-> config.challenge_timezone, running |-> TRUE])
    /\ scheduler' = Len(aps) + 1
    /\ UNCHANGED <<scores, utc_date, handlers, lb, config>>

\* on_disconnect, lines 524-529: the scheduler of the global is shut down;
\* on one already shut down, shutdown() raises and nothing changes.
OnDisconnect ==
    /\ aps' = IF scheduler # 0
              THEN [aps EXCEPT ![scheduler].running = FALSE]
              ELSE aps
    /\ UNCHANGED <<scores, utc_date, PROMPT_CHANNEL_ID, handlers, lb, config, scheduler>>

\* timezone, lines 369-389: an administrator's valid timezone is written to
\* the configuration file (set_challenge_timezone, lines 129-132); every
\* other call only answers.
Timezone ==
    /\ \E administrator \in BOOLEAN, timezone \in TimezoneArgs :
          config' = IF administrator /\ timezone # NoTimezone /\ timezone \in TzDatabase
                    THEN [config EXCEPT !.challenge_timezone = timezone]
                    ELSE config
    /\ UNCHANGED <<scores, utc_date, PROMPT_CHANNEL_ID, handlers, lb, scheduler, aps>>

\* ------------------------------------------------------------------ clock
\* Midnight UTC passes.
Midnight ==
    /\ utc_date < MaxDay
    /\ utc_date' = utc_date + 1
    /\ UNCHANGED <<scores, PROMPT_CHANNEL_ID, handlers, lb, config, scheduler, aps>>

\* The submission handlers, /set and the clock.
Next ==
    \/ \E h \in Handlers :
          \/ OnMessageIgnored(h)
          \/ OnMessage(h)
          \/ SessionGet(h)
          \/ ReadRaises(h)
          \/ ReadAndScore(h)
          \/ ReplyDelivered(h)
          \/ ReplyRaises(h)
    \/ SetChannel
    \/ Midnight

Spec == Init /\ [][Next]_vars

\* The /leaderboard command over the ledgers earlier submissions can have left
\* in circle_scores.db: every table built by up to MaxRows successful inserts.
ScoreValues == {analyse_image(i).value : i \in {j \in Images : analyse_image(j) # None}}

RECURSIVE Ledgers(_)
Ledgers(n) ==
    IF n = 0 THEN {<<>>}
    ELSE LET shorter == Ledgers(n - 1)
         IN shorter \cup
            {InsertRow(t, k[1], k[2], k[3]) :
                <<t, k>> \in {x \in shorter \X (Users \X (0..MaxDay) \X ScoreValues) :
                                 PrimaryKeyFree(x[1], x[2][1], x[2][2])}}

LbInit ==
    /\ scores \in Ledgers(MaxRows)
    /\ utc_date \in 0..MaxDay
    /\ PROMPT_CHANNEL_ID = 0
    /\ handlers = [h \in Handlers |-> IdleHandler]
    /\ lb = IdleLeaderboard
    /\ config = default_config
    /\ scheduler = 0
    /\ aps = <<>>

LbNext ==
    \/ Leaderboard
    \/ LeaderboardEmbed
    \/ LeaderboardSent
    \/ LeaderboardSendRaises
    \/ Midnight

LbSpec == LbInit /\ [][LbNext]_vars

\* A handler that has started takes its next step once the call it awaits
\* (session.get, resp.read, message.reply) has returned or raised.
HandlerStep(h) ==
    \/ SessionGet(h)
    \/ ReadRaises(h)
    \/ ReadAndScore(h)
    \/ ReplyDelivered(h)
    \/ ReplyRaises(h)

\* Spec with every awaited call returning: the event loop resumes a coroutine
\* whose awaited call is over.
LiveSpec == Init /\ [][Next]_vars /\ \A h \in Handlers : WF_vars(HandlerStep(h))

\* The scorer and the insert over every image: one submission has passed its
\* check on an empty ledger and its download has returned 200.
ScorerInit ==
    /\ scores = <<>>
    /\ utc_date = 0
    /\ PROMPT_CHANNEL_ID = ChallengeChannel
    /\ \E u \in Users :
          handlers = [h \in Handlers |->
                        IF h = 1 THEN [IdleHandler EXCEPT !.pc = "read", !.user_id = u]
                        ELSE IdleHandler]
    /\ lb = IdleLeaderboard
    /\ config = [default_config EXCEPT !.prompt_channel_id = ChallengeChannel]
    /\ scheduler = 0
    /\ aps = <<>>

ScorerNext ==
    \E h \in Handlers :
        \/ ReadAndScoreFrom(h, ScorerImages)
        \/ ReplyDelivered(h)
        \/ ReplyRaises(h)

ScorerSpec == ScorerInit /\ [][ScorerNext]_vars

\* The bot's connections to Discord and the administrator's commands.
LifeNext ==
    \/ OnReady
    \/ OnDisconnect
    \/ Timezone
    \/ SetChannel

LifeSpec == Init /\ [][LifeNext]_vars

\* The submission handlers, /leaderboard, /set and the clock together.
AllNext ==
    \/ \E h \in Handlers :
          \/ OnMessageIgnored(h)
          \/ OnMessage(h)
          \/ SessionGet(h)
          \/ ReadRaises(h)
          \/ ReadAndScore(h)
          \/ ReplyDelivered(h)
          \/ ReplyRaises(h)
    \/ Leaderboard
    \/ LeaderboardEmbed
    \/ LeaderboardSent
    \/ LeaderboardSendRaises
    \/ SetChannel
    \/ Midnight

AllSpec == Init /\ [][AllNext]_vars

\* ================================================================ properties
\* The rows of the ledger with key (u, d), by position.
RowsOf(u, d) == {i \in 1..Len(scores) : scores[i].user_id = u /\ scores[i].date = d}

\* The handlers of (u, d) whose insert ran and met no storage I/O error.
Inserters(u, d) ==
    {h \in Handlers : /\ handlers[h].user_id = u
                      /\ handlers[h].today = d
                      /\ handlers[h].insert \in {"ok", "IntegrityError"}}

\* The step in which handler h runs analyse_image (resp.read() has returned).
Scores(h) == handlers[h].pc = "read" /\ handlers'[h].score # Unset

\* C1: the ledger holds at most one row for each (user_id, day).
C1_OneRowPerUserDay ==
    \A i, j \in 1..Len(scores) :
        (scores[i].user_id = scores[j].user_id /\ scores[i].date = scores[j].date)
            => i = j

\* A second insert for a key of the ledger has been attempted.
C1_Witness ==
    \E h \in Handlers : handlers[h].insert = "IntegrityError"

\* C2: of the handlers of one (user, day) that all passed the check and whose
\* inserts ran, exactly one insert succeeded, every other one failed with the
\* duplicate-key error, and that day's leaderboard has one entry of the user.
C2_ExactlyOneInsertWins ==
    \A u \in Users, d \in 0..MaxDay :
        Cardinality(Inserters(u, d)) >= 2 =>
            /\ \E w \in Inserters(u, d) :
                  /\ handlers[w].insert = "ok"
                  /\ \A h \in Inserters(u, d) \ {w} : handlers[h].insert = "IntegrityError"
            /\ LET day == SelectWhereDate(scores, d)
               IN Cardinality({i \in 1..Len(day) : day[i].user_id = u}) = 1

\* Two handlers of one (user, day) have both inserted: one won, one lost.
C2_Witness ==
    \E g, h \in Handlers :
        /\ g # h
        /\ handlers[g].user_id = handlers[h].user_id
        /\ handlers[g].today = handlers[h].today
        /\ handlers[g].insert = "ok"
        /\ handlers[h].insert = "IntegrityError"
        /\ Cardinality(RowsOf(handlers[h].user_id, handlers[h].today)) = 1

\* C3: a submission whose image cannot be decoded or shows no contour writes
\* no row: the ledger after it equals the ledger before it.
C3_NoRowWithoutShape ==
    [][\A h \in Handlers :
          (Scores(h) /\ (handlers'[h].image_bytes.decode # "ok"
                         \/ handlers'[h].image_bytes.contours = <<>>))
              => scores' = scores]_vars

\* C4: for an image without contours the scorer returns a failure, not a number.
C4_NoContoursIsFailure ==
    \A h \in Handlers :
        (handlers[h].image_bytes.decode = "ok" /\ handlers[h].image_bytes.contours = <<>>)
            => handlers[h].score.kind # "float"

\* C5: when decoding fails or raises, the scorer returns None, nothing is
\* inserted, the reply sent is the could-not-analyse one, and the submission
\* ends with it (or with the could-not-process reply when sending it raises).
C5_DecodeFailureRejected ==
    [][\A h \in Handlers :
          /\ (Scores(h) /\ handlers'[h].image_bytes.decode # "ok")
                => /\ handlers'[h].score = None
                   /\ handlers'[h].reply = "unanalysable"
                   /\ handlers'[h].insert = "none"
                   /\ scores' = scores
          /\ (handlers[h].pc = "reply" /\ handlers[h].image_bytes.decode \in {"none", "raise"})
                => /\ handlers[h].reply \in {"unanalysable", "trouble"}
                   /\ handlers'[h].pc = "done" =>
                         handlers'[h].outcome \in {"unanalysable", "trouble", "raised"}
          /\ (handlers[h].reply = "unanalysable" /\ handlers'[h].pc = "done")
                => handlers'[h].outcome = "unanalysable"]_vars

\* A submission has ended with the could-not-analyse message.
C5_Witness ==
    \E h \in Handlers : handlers[h].pc = "done" /\ handlers[h].outcome = "unanalysable"

\* C6 as claimed: the scorer never runs for (user, day) while the ledger holds
\* a row for (user, day).
C6_NeverScoredWithRow ==
    [][\A h \in Handlers :
          Scores(h) => RowsOf(handlers[h].user_id, handlers[h].today) = {}]_vars

\* C6 amended: the scorer runs for a submission only if its own check found no
\* row for (user, day); a submission whose check finds a row sends the
\* already-submitted reply and neither downloads nor scores.
C6_ScoredOnlyAfterFreeCheck ==
    [][\A h \in Handlers :
          /\ (handlers[h].pc = "idle" /\ handlers'[h].pc \notin {"idle", "ignored"})
                => IF RowsOf(handlers'[h].user_id, handlers'[h].today) # {}
                   THEN /\ handlers'[h].pc = "reply"
                        /\ handlers'[h].reply \in {"already_submitted", "check_error"}
                   ELSE handlers'[h].reply # "already_submitted"
          /\ (handlers[h].pc # "get" /\ handlers'[h].pc = "get")
                => /\ handlers[h].pc = "idle"
                   /\ RowsOf(handlers'[h].user_id, handlers'[h].today) = {}
          /\ (handlers[h].pc # "read" /\ handlers'[h].pc = "read") => handlers[h].pc = "get"
          /\ handlers'[h].score # handlers[h].score => Scores(h) \/ handlers'[h].pc = "done"
          /\ handlers[h].reply \in {"already_submitted", "check_error"}
                => /\ handlers[h].score = Unset
                   /\ handlers[h].image_bytes = NoImage
          /\ (handlers[h].reply = "already_submitted" /\ handlers'[h].pc = "done")
                => handlers'[h].outcome = "already_submitted"]_vars

\* A submission whose check found a row has ended as already submitted.
C6_Witness ==
    \E h \in Handlers :
        /\ handlers[h].pc = "done"
        /\ handlers[h].outcome = "already_submitted"
        /\ RowsOf(handlers[h].user_id, handlers[h].today) # {}

\* C7: a submission whose insert failed with the duplicate-key error is told
\* it has already submitted, not that saving failed.
C7_DuplicateKeyToldAlreadySubmitted ==
    \A h \in Handlers :
        (handlers[h].insert = "IntegrityError" /\ handlers[h].pc = "reply")
            => handlers[h].reply # "save_error"

\* C8: the rows the leaderboard query returns are exactly the (user_id, score)
\* of the rows stored for the day, in non-increasing order of score.
C8_LeaderboardRanked ==
    [][(lb.pc = "idle" /\ lb'.pc # "idle" /\ lb'.raised = "none") =>
          LET results == lb'.results
              stored == {[user_id |-> scores[i].user_id, score |-> scores[i].score] :
                            i \in {j \in 1..Len(scores) : scores[j].date = utc_date}}
          IN /\ {results[i] : i \in 1..Len(results)} = stored
             /\ Len(results) = Cardinality(stored)
             /\ \A i \in 1..Len(results), j \in 1..Len(results) :
                   i < j => results[i].score >= results[j].score]_vars

\* The query has returned two rows in the reverse of their insertion order.
C8_Witness ==
    /\ lb.pc = "fetch_user"
    /\ Len(lb.results) = 2
    /\ lb.results[1].score > lb.results[2].score
    /\ Len(scores) = 2
    /\ scores[1].score < scores[2].score

\* C9: for a day without rows the query result is empty and the response is
\* the no-entries message; the error message is sent only after sqlite3 or
\* send_message has raised, never because the result is empty.
C9_EmptyDayIsNormal ==
    [][/\ (/\ lb.pc = "idle" /\ lb'.pc # "idle" /\ lb'.raised = "none"
           /\ \A i \in 1..Len(scores) : scores[i].date # utc_date)
          => /\ lb'.results = <<>>
             /\ lb'.pc = "send"
             /\ lb'.response = "no_entries"
       /\ lb'.response = "error" => lb'.raised # "none"
       /\ (lb.response = "no_entries" /\ lb'.pc = "send") =>
             (lb'.response = "no_entries" \/ lb'.raised = "send_message")]_vars

\* The no-entries message is being sent while the ledger has rows of another day.
C9_Witness ==
    /\ lb.pc = "send"
    /\ lb.response = "no_entries"
    /\ lb.raised = "none"
    /\ Len(scores) > 0

\* C10: a row of the ledger is in every later ledger, at its place and with
\* its score.
C10_RowsNeverChange ==
    [][/\ Len(scores') >= Len(scores)
       /\ \A i \in 1..Len(scores) : scores'[i] = scores[i]]_vars

\* A user's row of an earlier day is still there after the user's next insert.
C10_Witness ==
    /\ Len(scores) = 2
    /\ scores[1].user_id = scores[2].user_id
    /\ scores[1].date < scores[2].date

\* Handler h runs the already-submitted check in this step.
Checks(h) == handlers[h].pc = "idle" /\ handlers'[h].pc \in {"reply", "get"}

\* C11: the already-submitted check leaves the ledger as it was, whether it
\* finds a row, finds none or ends in a check error; so checks with no insert
\* between them all see and leave the same ledger.
C11_CheckLeavesLedger ==
    [][\A h \in Handlers : Checks(h) => scores' = scores]_vars

\* A check has found the one row of the ledger and its reply is on the way.
C11_Witness ==
    \E h \in Handlers :
        /\ handlers[h].pc = "reply"
        /\ handlers[h].reply = "already_submitted"
        /\ handlers[h].insert = "none"
        /\ Len(scores) = 1

\* C12: a submission whose image was scored but whose insert failed is
\* answered with the error-saving message, a submission that could not be
\* scored with the could-not-analyse message (unless sending that answer
\* itself fails), and a failed insert leaves no row: the rows of a user and
\* day are as many as the inserts that committed for them.
C12_StorageFailureIsNotScoringFailure ==
    /\ \A h \in Handlers :
          handlers[h].pc = "reply" /\ handlers[h].reply # "trouble" =>
             /\ (handlers[h].score \notin {None, Unset}
                    /\ handlers[h].insert \in {"OperationalError", "IntegrityError"})
                  => handlers[h].reply = "save_error"
             /\ handlers[h].score = None
                  => handlers[h].reply = "unanalysable" /\ handlers[h].insert = "none"
    /\ \A u \in Users, d \in 0..MaxDay :
          Cardinality(RowsOf(u, d)) =
             Cardinality({h \in Handlers : /\ handlers[h].user_id = u
                                           /\ handlers[h].today = d
                                           /\ handlers[h].insert = "ok"})

\* The error-saving message is on the way for a scored image whose insert
\* sqlite3 refused, and the ledger is empty.
C12_Witness ==
    \E h \in Handlers :
        /\ handlers[h].pc = "reply"
        /\ handlers[h].reply = "save_error"
        /\ handlers[h].insert = "OperationalError"
        /\ handlers[h].score \notin {None, Unset}
        /\ scores = <<>>

\* The rows of the ledger that are not user u's, in ledger order.
RowsOfOthers(table, u) == SelectSeq(table, LAMBDA r : r.user_id # u)

\* C13: a step of user A's submission, whatever it ends in, leaves every row
\* of every other user as it was, and leaves unchanged what the check and
\* the insert of another user's submission for any day would find.
C13_OtherUsersUntouched ==
    [][\A h \in Handlers :
          handlers'[h] # handlers[h] =>
             LET A == handlers'[h].user_id
             IN /\ RowsOfOthers(scores', A) = RowsOfOthers(scores, A)
                /\ \A B \in Users \ {A}, d \in 0..MaxDay :
                      /\ HasRow(scores', B, d) = HasRow(scores, B, d)
                      /\ \A db_error \in BOOLEAN :
                            InsertOutcome(scores', B, d, db_error)
                               = InsertOutcome(scores, B, d, db_error)]_vars

\* Two users each have their row for the same day.
C13_Witness ==
    /\ Len(scores) = 2
    /\ scores[1].user_id # scores[2].user_id
    /\ scores[1].date = scores[2].date

\* C14: a submission reads the UTC date once, when its handler starts; its
\* check looks for the row of that day, the handler keeps the day to its end,
\* and the row it inserts carries that day whatever the date is by then.  The
\* leaderboard's query takes rows of the date of the same clock.
C14_OneDayPerSubmission ==
    [][/\ \A h \in Handlers :
             /\ Checks(h) =>
                   /\ handlers'[h].today = utc_date
                   /\ handlers'[h].reply = "already_submitted" =>
                         RowsOf(handlers'[h].user_id, handlers'[h].today) # {}
                   /\ handlers'[h].pc = "get" =>
                         RowsOf(handlers'[h].user_id, handlers'[h].today) = {}
             /\ handlers[h].pc # "idle" => handlers'[h].today = handlers[h].today
             /\ (Scores(h) /\ scores' # scores) =>
                   /\ Len(scores') = Len(scores) + 1
                   /\ scores'[Len(scores')].date = handlers[h].today
                   /\ scores'[Len(scores')].user_id = handlers[h].user_id
       /\ (lb.pc = "idle" /\ lb'.pc # "idle" /\ lb'.raised = "none") =>
             Len(lb'.results) =
                Cardinality({i \in 1..Len(scores) : scores[i].date = utc_date})]_vars

\* A submission that started before midnight has written its row, of the day
\* before, after a submission that started after midnight wrote its own.
C14_Witness ==
    /\ Len(scores) = 2
    /\ scores[1].date = 1
    /\ scores[2].date = 0
    /\ utc_date = 1

C17_NoConnectionWhileScoring ==
    \A h \in Handlers :
        handlers[h].pc \in {"get", "read"} =>
           handlers[h].conn = 0 /\ handlers[h].insert = "none"

\* A submission is about to be scored without a connection while another,
\* whose insert failed, still has its connection.
C17_Witness ==
    \E h, g \in Handlers :
        /\ handlers[h].pc = "read"
        /\ handlers[h].conn = 0
        /\ handlers[g].pc = "reply"
        /\ handlers[g].conn = 1

\* The messages on_message can leave with the submitter.
Delivered ==
    {"saved", "already_submitted", "unanalysable", "download_failed",
     "save_error", "check_error", "trouble"}

\* C18 as stated: every submission that has ended has left one of its
\* outcomes with the submitter.
C18_EveryEndHasOutcome ==
    \A h \in Handlers : handlers[h].pc = "done" => handlers[h].outcome \in Delivered

\* C18, amended: every submission that passes the filters ends; nothing is
\* delivered before its end and at most one message at it; and it ends
\* without any message only when the reply of its last except clause (the
\* check-error or the trouble-processing message) itself raises.
C18_EndsWithAtMostOneOutcome ==
    /\ \A h \in Handlers :
          (handlers[h].pc \notin {"idle", "ignored"}) ~> (handlers[h].pc = "done")
    /\ [](\A h \in Handlers :
            IF handlers[h].pc = "done"
            THEN handlers[h].outcome \in Delivered \cup {"raised"}
            ELSE handlers[h].outcome = "none")
    /\ [][\A h \in Handlers :
            (handlers'[h].outcome = "raised" /\ handlers[h].outcome # "raised") =>
               /\ handlers[h].pc = "reply"
               /\ handlers[h].reply \in {"check_error", "trouble"}]_vars

\* A submission has ended with the could-not-download message, another with
\* no message at all.
C18_Witness ==
    \E h, g \in Handlers :
        /\ handlers[h].pc = "done"
        /\ handlers[h].outcome = "download_failed"
        /\ handlers[g].pc = "done"
        /\ handlers[g].outcome = "raised"

\* C20: a submitter who got the saved message has a committed insert, and a
\* submitter who got (or is being sent) the error-saving message has none -
\* also when the saved message could not be sent.
C20_SaveErrorOnlyWithoutRow ==
    \A h \in Handlers :
        /\ (handlers[h].pc = "done" /\ handlers[h].outcome = "saved")
              => handlers[h].insert = "ok"
        /\ (\/ handlers[h].pc = "done" /\ handlers[h].outcome = "save_error"
            \/ handlers[h].pc = "reply" /\ handlers[h].reply = "save_error")
              => handlers[h].insert # "ok"

\* C19: the job of the running scheduler has the configured challenge
\* timezone, in every state and so in every state after a /timezone command
\* has set it.
C19_JobFollowsConfiguredTimezone ==
    (scheduler # 0 /\ aps[scheduler].running) =>
        aps[scheduler].timezone = config.challenge_timezone

\* C21: whatever on_ready and on_disconnect events have happened, at most one
\* scheduler carrying the daily_prompt job is running, and after an on_ready
\* one is running.
C21_AtMostOneRunningScheduler ==
    [][/\ Cardinality({i \in 1..Len(aps') : aps'[i].running}) <= 1
       /\ Len(aps') > Len(aps) => \E i \in 1..Len(aps') : aps'[i].running]_vars

\* C22: for an image with contours the score is that of the first contour, in
\* extraction order, whose area no other contour exceeds.
C22_FirstLargestContourScored ==
    [][\A h \in Handlers :
          LET cs == handlers'[h].image_bytes.contours
          IN (Scores(h) /\ handlers'[h].image_bytes.decode = "ok" /\ cs # <<>>) =>
                \E i \in 1..Len(cs) :
                    /\ \A j \in 1..Len(cs) : cs[j].area <= cs[i].area
                    /\ \A j \in 1..(i - 1) : cs[j].area < cs[i].area
                    /\ handlers'[h].score =
                          IF cs[i].area = 0 \/ cs[i].circle_area = 0 THEN Float(0)
                          ELSE Float((cs[i].area * 100) \div cs[i].circle_area)]_vars

\* Two contours of the same area, the first filling two thirds of its circle
\* and the second all of it: the score is the first one's.
C22_Witness ==
    \E h \in Handlers :
        /\ handlers[h].pc = "reply"
        /\ handlers[h].image_bytes.contours = <<Contour(2, 3), Contour(2, 2)>>
        /\ handlers[h].score = Float(66)

====
